---- MODULE Spec2Model ----
\* Model of src/serial_utils.py (SerialDeviceDetector, FirmwareUploader) and of
\* the upload button handler of src/app.py.  One single-threaded caller issues
\* the operations; every channel, file and callback step of an operation is one
\* action, and each of them may fail the way the Python call can fail.
EXTENDS Integers, Sequences, FiniteSets, TLC

\* ------------------------------------------------------------------ bounds
MaxLen == 3          \* longest firmware file, in bytes
MaxChunk == 2        \* largest chunk_size a direct caller passes
MaxHandles == 2      \* serial.Serial objects the uploader side may construct
MaxPorts == 2        \* longest port enumeration
LongLen == 50        \* length of the one long firmware file, sent in many chunks

\* --------------------------------------------------------- byte strings
\* b"UPLOAD_START\n"
UPLOAD_START == <<85, 80, 76, 79, 65, 68, 95, 83, 84, 65, 82, 84, 10>>
\* b"\nUPLOAD_COMPLETE\n"
UPLOAD_COMPLETE == <<10, 85, 80, 76, 79, 65, 68, 95, 67, 79, 77, 80, 76, 69, 84, 69, 10>>
\* b"PING\n"
HANDSHAKE_COMMAND == <<80, 73, 78, 71, 10>>
\* b"PONG"
HANDSHAKE_RESPONSE == <<80, 79, 78, 71>>
\* the size passed to the final read of an upload
ReadCap == 100

\* self.serial_conn = None
NoConn == 0

Min(a, b) == IF a < b THEN a ELSE b

\* bytes[:n]
Take(s, n) == SubSeq(s, 1, Min(n, Len(s)))

\* bytes[n:]
Drop(s, n) == SubSeq(s, Min(n, Len(s)) + 1, Len(s))

\* needle in hay, for bytes objects
Contains(hay, needle) ==
    \E i \in 0..(Len(hay) - Len(needle)) :
        SubSeq(hay, i + 1, i + Len(needle)) = needle

\* a run of n copies of byte b
Rep(b, n) == [i \in 1..n |-> b]

\* ------------------------------------------- Python float arithmetic
\* A float is [m, k]: the MantBits bits m (most significant first) of its
\* significand and the exponent k, with value m * 2^-k.
\* significand width of a Python float (IEEE 754 binary64)
MantBits == 53

Reverse(s) == [i \in 1..Len(s) |-> s[Len(s) + 1 - i]]

\* the next n bits of the binary expansion of r/b, for 0 <= r < b
RECURSIVE DivBits(_, _, _)
DivBits(r, b, n) ==
    IF n = 0 THEN << >>
    ELSE LET bit == IF 2 * r >= b THEN 1 ELSE 0
         IN <<bit>> \o DivBits(2 * r - bit * b, b, n - 1)

\* the remainder left after those n bits
RECURSIVE DivRem(_, _, _)
DivRem(r, b, n) ==
    IF n = 0 THEN r
    ELSE LET bit == IF 2 * r >= b THEN 1 ELSE 0
         IN DivRem(2 * r - bit * b, b, n - 1)

\* zero bits before the first one bit of the expansion of r/b, for 0 < r < b
RECURSIVE LeadZeros(_, _)
LeadZeros(r, b) == IF 2 * r >= b THEN 0 ELSE 1 + LeadZeros(2 * r, b)

\* bits (most significant first) plus one; << >> stands for a carry out
RECURSIVE IncRev(_)
IncRev(rev) ==
    IF rev = << >> THEN <<1>>
    ELSE IF Head(rev) = 0 THEN <<1>> \o Tail(rev)
    ELSE <<0>> \o IncRev(Tail(rev))

\* round a bit string (most significant bit first, first bit 1) of
\* value bits * 2^-k to MantBits bits, ties to even
RoundNearestEven(bits, k, sticky) ==
    IF Len(bits) <= MantBits THEN [m |-> bits, k |-> k]
    ELSE LET keep == SubSeq(bits, 1, MantBits)
             guard == bits[MantBits + 1]
             rest == \/ sticky
                     \/ \E i \in (MantBits + 2)..Len(bits) : bits[i] = 1
             up == guard = 1 /\ (rest \/ keep[MantBits] = 1)
             k2 == k - (Len(bits) - MantBits)
             inc == Reverse(IncRev(Reverse(keep)))
         IN IF ~up THEN [m |-> keep, k |-> k2]
            ELSE IF Len(inc) > MantBits
                 THEN [m |-> SubSeq(inc, 1, MantBits), k |-> k2 - 1]
                 ELSE [m |-> inc, k |-> k2]

\* float(a) / float(b) for integers 0 < a <= b
FloatDiv(a, b) ==
    IF a = b THEN [m |-> <<1>> \o [i \in 1..(MantBits - 1) |-> 0], k |-> MantBits - 1]
    ELSE LET z == LeadZeros(a, b)
             r == DivRem(a, b, z)
             bits == DivBits(r, b, MantBits + 1)
             rem == DivRem(r, b, MantBits + 1)
         IN RoundNearestEven(bits, z + MantBits + 1, rem # 0)

\* the bits of carry, least significant first
RECURSIVE CarryBits(_)
CarryBits(c) == IF c = 0 THEN << >> ELSE <<c % 2>> \o CarryBits(c \div 2)

RECURSIVE MulRev(_, _, _)
MulRev(rev, c, carry) ==
    IF rev = << >> THEN CarryBits(carry)
    ELSE LET t == Head(rev) * c + carry
         IN <<t % 2>> \o MulRev(Tail(rev), c, t \div 2)

\* x * float(c) for a small positive integer c
FloatMul(x, c) == RoundNearestEven(Reverse(MulRev(Reverse(x.m), c, 0)), x.k, FALSE)

RECURSIVE BitsToInt(_)
BitsToInt(bits) ==
    IF bits = << >> THEN 0
    ELSE 2 * BitsToInt(SubSeq(bits, 1, Len(bits) - 1)) + bits[Len(bits)]

\* int(x) for a float 0 < x < 2^31
FloatToInt(x) ==
    IF x.k >= Len(x.m) THEN 0 ELSE BitsToInt(SubSeq(x.m, 1, Len(x.m) - x.k))

\* int((bytes_sent / file_size) * 100)
Progress(bytes_sent, file_size) == FloatToInt(FloatMul(FloatDiv(bytes_sent, file_size), 100))

\* ----------------------------------------------------------- exceptions
\* The classes an exception of the model can have, and the part of Python's
\* class hierarchy the except clauses test.
Bases(cls) ==
    CASE cls = "SerialException" -> {"SerialException", "OSError", "Exception", "BaseException"}
      [] cls = "FileNotFoundError" -> {"FileNotFoundError", "OSError", "Exception", "BaseException"}
      [] cls = "OSError" -> {"OSError", "Exception", "BaseException"}
      [] cls = "ValueError" -> {"ValueError", "Exception", "BaseException"}
      [] cls = "Exception" -> {"Exception", "BaseException"}
      [] OTHER -> {"BaseException"}

IsInstance(e, cls) == cls \in Bases(e.cls)

Exc(cls, desc) == [cls |-> cls, desc |-> desc]

\* no exception
NoExc == Exc("none", "")

\* what a pyserial call raises when the channel fails
ChannelErrors(what) == {Exc("SerialException", what), Exc("OSError", what)}

\* what opening or reading the firmware file raises
FileErrors == {Exc("FileNotFoundError", "No such file or directory"),
               Exc("OSError", "Permission denied")}

\* what a caller-supplied progress callback can raise
CallbackErrors == {Exc("Exception", "callback failed"),
                   Exc("FileNotFoundError", "progress.log"),
                   Exc("SerialException", "display detached"),
                   Exc("BaseException", "interrupted")}

\* ------------------------------------------------------------- inputs
\* firmware files of every length 0..MaxLen, and one of LongLen bytes; the
\* bytes of a file differ from one another, so that a lost, repeated or
\* reordered byte shows
Files == {[i \in 1..n |-> i] : n \in (0..MaxLen) \cup {LongLen}}
Paths == {"fw.bin", "app.hex"}
ChunkSizes == (-2)..MaxChunk
\* the slider of app.py offers 16..512 in steps of 16; the smallest of them
\* cuts the long file into several chunks
HandlerChunkSizes == {16}
\* bytes a device may have sent before the operation started
StaleInputs == {<< >>, HANDSHAKE_RESPONSE}
\* what the device answers after the completion marker
\* (nothing, "O" + an invalid byte + "K", more than the read takes)
UploadResponses == {<< >>, <<79, 255, 75>>, Rep(65, ReadCap + 1)}

\* what a device answers to PING\n: nothing, PONG, or PONG after a noise byte
HandshakeResponses == {<< >>, HANDSHAKE_RESPONSE, <<88>> \o HANDSHAKE_RESPONSE}

\* port.vid / port.pid is None
NoId == -1

\* the registry, in insertion order
KNOWN_DEVICES == <<
    [name |-> "Arduino Uno", vid |-> 9025, pid |-> 67],      \* 0x2341, 0x0043
    [name |-> "Arduino Mega", vid |-> 9025, pid |-> 16],     \* 0x2341, 0x0010
    [name |-> "ESP32", vid |-> 4292, pid |-> 60000],         \* 0x10C4, 0xEA60
    [name |-> "ESP32_ALT", vid |-> 6790, pid |-> 29987],     \* 0x1A86, 0x7523
    [name |-> "Arduino Nano", vid |-> 6790, pid |-> 29987]   \* 0x1A86, 0x7523
>>

\* the kinds of port an enumeration may list: two registered boards, a port
\* without IDs, a port with a vendor ID only, an unregistered pair, and a
\* pair made of a registered vendor ID and another entry's product ID
PortKinds == {
    [description |-> "Arduino Uno", vid |-> 9025, pid |-> 67],
    [description |-> "USB-SERIAL CH340", vid |-> 6790, pid |-> 29987],
    [description |-> "n/a", vid |-> NoId, pid |-> NoId],
    [description |-> "Vendor only", vid |-> 9025, pid |-> NoId],
    [description |-> "FT232R", vid |-> 1027, pid |-> 24577],
    [description |-> "Mixed", vid |-> 9025, pid |-> 29987]
}

PortNames == <<"COM1", "COM2", "COM3", "COM4">>

\* what serial.tools.list_ports.comports() may return
PortLists ==
    UNION {{[i \in 1..n |-> [device |-> PortNames[i], description |-> k[i].description,
                              vid |-> k[i].vid, pid |-> k[i].pid]] :
            k \in [1..n -> PortKinds]} : n \in 0..MaxPorts}

VARIABLES
    handles,      \* the serial.Serial objects constructed by open_connection;
                  \* owned: constructed by the current uploader object
    serial_conn,  \* FirmwareUploader.serial_conn: NoConn or an index of handles
    pc,           \* position of the caller
    caller,       \* who called upload_firmware: "api" or "handler"
    up,           \* locals of the running upload_firmware
    log,          \* channel operations of the running or last operation
    cb,           \* progress callback invocations of the running or last upload
    ser,          \* the channel of the running handshake
    hs,           \* locals of the running verify_by_handshake
    det,          \* locals of the running detect_device, and the ports it has
                  \* called verify_by_handshake on (probed)
    ret           \* what the last operation returned or raised

vars == <<handles, serial_conn, pc, caller, up, log, cb, ser, hs, det, ret>>
uploaderVars == <<handles, serial_conn, caller, up, cb>>
detectorVars == <<ser, hs, det>>

\* Python's None as a returned value
None == [none |-> TRUE]

NoRet == [op |-> "none", kind |-> "none"]
Returned(op, v) == [op |-> op, kind |-> "value", val |-> v]
Raised(op, e) == [op |-> op, kind |-> "raised", exc |-> e]

NoUp == [path |-> "", chunk_size |-> 0, has_cb |-> FALSE, content |-> << >>,
         file_size |-> 0, pos |-> 0, bytes_sent |-> 0, chunk |-> << >>,
         cause |-> NoExc, failed_at |-> ""]

NoSer == [state |-> "none", inbuf |-> << >>]
NoHs == [port |-> "", from |-> "api", answer |-> << >>]
NoDet == [ports |-> << >>, i |-> 0, candidates |-> << >>, try_handshake |-> FALSE,
          probed |-> << >>]

\* one entry of the log: a completed channel operation or a file open attempt
Op(op, site, data) == [op |-> op, site |-> site, data |-> data]

IsOpen(h) == h # NoConn /\ handles[h].is_open

Init ==
    /\ handles = << >>
    /\ serial_conn = NoConn
    /\ pc = "idle"
    /\ caller = "api"
    /\ up = NoUp
    /\ log = << >>
    /\ cb = << >>
    /\ ser = NoSer
    /\ hs = NoHs
    /\ det = NoDet
    /\ ret = NoRet

\* ------------------------------------------------------------ uploader
\* handles once self.serial_conn no longer refers to its Serial object and
\* the object has not been finalized: it stays as it is, open or closed, but
\* its pending input can no longer be read by anyone
Dereferenced ==
    IF serial_conn = NoConn THEN handles
    ELSE [handles EXCEPT ![serial_conn].inbuf = << >>]

\* handles once the Serial object that self.serial_conn referred to has been
\* finalized: the finalizer of an I/O object calls its close()
Finalized ==
    IF IsOpen(serial_conn)
    THEN [handles EXCEPT ![serial_conn].is_open = FALSE,
                         ![serial_conn].closes = @ + 1,
                         ![serial_conn].inbuf = << >>]
    ELSE Dereferenced

\* the code drops its reference without a close(); whether the object is
\* finalized by the time the statement is over is the runtime's choice
\* (reference counting finalizes at once, a tracing collector later or never)
Released == {Dereferenced, Finalized}

\* the handles once a new uploader object has taken the place of the current one
Disowned(objs) == [h \in 1..Len(objs) |-> [objs[h] EXCEPT !.owned = FALSE]]

\* FirmwareUploader.__init__: a new uploader object replaces the current one
NewUploader ==
    /\ pc = "idle"
    /\ UNCHANGED detectorVars
    /\ serial_conn' = NoConn
    /\ \E objs \in Released : handles' = Disowned(objs)
    /\ ret' = Returned("__init__", None)
    /\ log' = << >>
    /\ cb' = << >>
    /\ UNCHANGED <<pc, caller, up>>

\* the state change of open_connection when serial.Serial(...) succeeds
OpenOk(stale) ==
    /\ \E objs \in Released :
          handles' = Append(objs, [is_open |-> TRUE, closes |-> 0, inbuf |-> stale,
                                 owned |-> TRUE])
    /\ serial_conn' = Len(handles) + 1

\* the outcome of open_connection when serial.Serial(...) raises e
OpenConnectionExcept(e) ==
    IF IsInstance(e, "SerialException")
    THEN Returned("open_connection", FALSE)
    ELSE Raised("open_connection", e)

OpenConnection ==
    /\ pc = "idle"
    /\ UNCHANGED detectorVars
    /\ log' = << >>
    /\ cb' = << >>
    /\ \/ /\ Len(handles) < MaxHandles
          /\ \E stale \in StaleInputs : OpenOk(stale)
          /\ ret' = Returned("open_connection", TRUE)
       \/ /\ \E e \in ChannelErrors("could not open port") :
                ret' = OpenConnectionExcept(e)
          /\ UNCHANGED <<handles, serial_conn>>
    /\ UNCHANGED <<pc, caller, up>>

\* close_connection without the is_open test
CloseEffectUnguarded ==
    IF serial_conn # NoConn
    THEN handles' = [handles EXCEPT ![serial_conn].is_open = FALSE,
                                    ![serial_conn].closes = @ + 1,
                                    ![serial_conn].inbuf = << >>]
    ELSE UNCHANGED handles

\* the state change of close_connection
CloseEffect ==
    IF IsOpen(serial_conn)
    THEN handles' = [handles EXCEPT ![serial_conn].is_open = FALSE,
                                    ![serial_conn].closes = @ + 1,
                                    ![serial_conn].inbuf = << >>]
    ELSE UNCHANGED handles

CloseConnection ==
    /\ pc = "idle"
    /\ UNCHANGED detectorVars
    /\ CloseEffect
    /\ ret' = [op |-> "close_connection", kind |-> "value", val |-> None,
               closed |-> IsOpen(serial_conn)]
    /\ log' = << >>
    /\ cb' = << >>
    /\ UNCHANGED <<serial_conn, pc, caller, up>>

\* ------------------------------------------------------ upload_firmware
\* the guard without the is_open test
ConnectionAssigned == serial_conn # NoConn

\* the guard at the head of upload_firmware
ConnectionUsable == IsOpen(serial_conn)

\* a failure dict that also carries a bytes_sent field
FailureWithBytesSent(text, arg) ==
    [success |-> FALSE, message |-> <<text, arg>>, bytes_sent |-> 0]

\* the dict upload_firmware returns on failure
Failure(text, arg) == [success |-> FALSE, message |-> <<text, arg>>]

\* the dict upload_firmware returns on success
Success(bytes_sent, response) ==
    [success |-> TRUE, message |-> <<"Successfully uploaded bytes", bytes_sent>>,
     bytes_sent |-> bytes_sent, response |-> response]

\* the except clauses without the FileNotFoundError clause
UploadExceptNoPath(e, path) ==
    IF IsInstance(e, "SerialException")
    THEN Returned("upload_firmware", Failure("Serial communication error: ", e.desc))
    ELSE IF IsInstance(e, "Exception")
    THEN Returned("upload_firmware", Failure("Upload failed: ", e.desc))
    ELSE Raised("upload_firmware", e)

\* the except clauses of upload_firmware, in their order
UploadExcept(e, path) ==
    IF IsInstance(e, "FileNotFoundError")
    THEN Returned("upload_firmware", Failure("Firmware file not found: ", path))
    ELSE IF IsInstance(e, "SerialException")
    THEN Returned("upload_firmware", Failure("Serial communication error: ", e.desc))
    ELSE IF IsInstance(e, "Exception")
    THEN Returned("upload_firmware", Failure("Upload failed: ", e.desc))
    ELSE Raised("upload_firmware", e)

\* control goes back to whoever called upload_firmware
Finish(r) ==
    /\ ret' = r
    /\ pc' = IF caller = "handler" THEN "h_finally" ELSE "idle"

\* an exception e leaves the try body of upload_firmware
UploadRaise(e) ==
    /\ Finish(UploadExcept(e, up.path))
    /\ up' = [up EXCEPT !.cause = e, !.failed_at = pc]
    /\ UNCHANGED <<handles, serial_conn, caller, log, cb>>

\* a channel call of the upload fails
ChannelFails(what) == \E e \in ChannelErrors(what) : UploadRaise(e)

\* what the byte at index i of s contributes to s.decode('utf-8',
\* errors='ignore'), for input whose multi-byte sequences are at most two
\* bytes long: a code point, or nothing for a continuation byte already
\* consumed and for a byte that is dropped as invalid
DecodeAt(s, i) ==
    IF s[i] < 128 THEN <<s[i]>>
    ELSE IF s[i] \in 194..223 /\ i < Len(s) /\ s[i + 1] \in 128..191
    THEN <<(s[i] - 192) * 64 + (s[i + 1] - 128)>>
    ELSE << >>

RECURSIVE DecodeRange(_, _, _)
DecodeRange(s, i, j) ==
    IF i > j THEN << >>
    ELSE IF i = j THEN DecodeAt(s, i)
    ELSE LET mid == (i + j) \div 2
         IN DecodeRange(s, i, mid) \o DecodeRange(s, mid + 1, j)

\* response.decode('utf-8', errors='ignore')
Decode(s) == DecodeRange(s, 1, Len(s))

\* f.read(size) reading one byte more than asked
FileReadOneMore(content, pos, size) ==
    IF size = -1 THEN Drop(content, pos) ELSE Take(Drop(content, pos), size + 1)

\* f.read(size) at offset pos of a file holding content
FileRead(content, pos, size) ==
    IF size = -1 THEN Drop(content, pos) ELSE Take(Drop(content, pos), size)

UploadFirmware ==
    /\ pc = "idle"
    /\ UNCHANGED detectorVars
    /\ log' = << >>
    /\ cb' = << >>
    /\ \E path \in Paths, chunk_size \in ChunkSizes, has_cb \in BOOLEAN :
          up' = [NoUp EXCEPT !.path = path, !.chunk_size = chunk_size, !.has_cb = has_cb]
    /\ IF ConnectionUsable
       THEN /\ pc' = "u_open"
            /\ ret' = NoRet
       ELSE /\ pc' = "idle"
            /\ ret' = Returned("upload_firmware", Failure("Serial connection not open", ""))
    /\ UNCHANGED <<handles, serial_conn, caller>>

\* with open(firmware_path, 'rb') as f: file_size = f.seek(0, 2); f.seek(0)
UploadOpenFile ==
    /\ pc = "u_open"
    /\ UNCHANGED detectorVars
    /\ \/ /\ \E content \in Files :
                up' = [up EXCEPT !.content = content, !.file_size = Len(content), !.pos = 0]
          /\ log' = Append(log, Op("file_open", up.path, << >>))
          /\ pc' = "u_reset_in"
          /\ UNCHANGED <<ret>>
       \/ /\ \E e \in FileErrors :
                /\ Finish(UploadExcept(e, up.path))
                /\ up' = [up EXCEPT !.cause = e, !.failed_at = pc]
          /\ log' = Append(log, Op("file_open", up.path, << >>))
    /\ UNCHANGED <<handles, serial_conn, caller, cb>>

\* self.serial_conn.reset_input_buffer()
UploadResetInput ==
    /\ pc = "u_reset_in"
    /\ UNCHANGED detectorVars
    /\ \/ /\ handles' = [handles EXCEPT ![serial_conn].inbuf = << >>]
          /\ log' = Append(log, Op("reset_input_buffer", "upload", << >>))
          /\ pc' = "u_reset_out"
          /\ UNCHANGED <<serial_conn, caller, up, cb, ret>>
       \/ ChannelFails("reset failed")

\* self.serial_conn.reset_output_buffer()
UploadResetOutput ==
    /\ pc = "u_reset_out"
    /\ UNCHANGED detectorVars
    /\ \/ /\ log' = Append(log, Op("reset_output_buffer", "upload", << >>))
          /\ pc' = "u_start"
          /\ UNCHANGED <<handles, serial_conn, caller, up, cb, ret>>
       \/ ChannelFails("reset failed")

\* the payload started without the start marker
UploadStartNoMarker ==
    /\ pc = "u_start"
    /\ UNCHANGED detectorVars
    /\ up' = [up EXCEPT !.bytes_sent = 0]
    /\ pc' = "u_read"
    /\ UNCHANGED <<handles, serial_conn, caller, log, cb, ret>>

\* self.serial_conn.write(b"UPLOAD_START\n"); bytes_sent = 0
UploadStart ==
    /\ pc = "u_start"
    /\ UNCHANGED detectorVars
    /\ \/ /\ log' = Append(log, Op("write", "start", UPLOAD_START))
          /\ up' = [up EXCEPT !.bytes_sent = 0]
          /\ pc' = "u_read"
          /\ UNCHANGED <<handles, serial_conn, caller, cb, ret>>
       \/ ChannelFails("write failed")

\* chunk = f.read(chunk_size); if not chunk: break
UploadReadChunk ==
    /\ pc = "u_read"
    /\ UNCHANGED detectorVars
    /\ IF up.chunk_size < -1
       THEN UploadRaise(Exc("ValueError", "read length must be non-negative or -1"))
       ELSE \/ LET chunk == FileRead(up.content, up.pos, up.chunk_size)
               IN /\ up' = [up EXCEPT !.chunk = chunk, !.pos = @ + Len(chunk)]
                  /\ pc' = IF chunk = << >> THEN "u_complete" ELSE "u_write"
                  /\ UNCHANGED <<handles, serial_conn, caller, log, cb, ret>>
            \/ UploadRaise(Exc("OSError", "Input/output error"))

\* self.serial_conn.write(chunk); bytes_sent += len(chunk)
UploadWriteChunk ==
    /\ pc = "u_write"
    /\ UNCHANGED detectorVars
    /\ \/ /\ log' = Append(log, Op("write", "chunk", up.chunk))
          /\ up' = [up EXCEPT !.bytes_sent = @ + Len(up.chunk)]
          /\ pc' = "u_progress"
          /\ UNCHANGED <<handles, serial_conn, caller, cb, ret>>
       \/ ChannelFails("write failed")

\* if progress_callback: progress_callback(progress, bytes_sent, file_size)
UploadProgress ==
    /\ pc = "u_progress"
    /\ UNCHANGED detectorVars
    /\ IF ~up.has_cb
       THEN /\ pc' = "u_read"
            /\ UNCHANGED <<handles, serial_conn, caller, up, log, cb, ret>>
       ELSE LET call == <<Progress(up.bytes_sent, up.file_size), up.bytes_sent, up.file_size>>
            IN \/ /\ cb' = Append(cb, call)
                  /\ pc' = "u_read"
                  /\ UNCHANGED <<handles, serial_conn, caller, up, log, ret>>
               \/ /\ cb' = Append(cb, call)
                  /\ \E e \in CallbackErrors :
                        /\ Finish(UploadExcept(e, up.path))
                        /\ up' = [up EXCEPT !.cause = e, !.failed_at = pc]
                  /\ UNCHANGED <<handles, serial_conn, caller, log>>

\* self.serial_conn.write(b"\nUPLOAD_COMPLETE\n"); the device may answer
UploadComplete ==
    /\ pc = "u_complete"
    /\ UNCHANGED detectorVars
    /\ \/ /\ log' = Append(log, Op("write", "complete", UPLOAD_COMPLETE))
          /\ \E resp \in UploadResponses :
                handles' = [handles EXCEPT ![serial_conn].inbuf = @ \o resp]
          /\ pc' = "u_final"
          /\ UNCHANGED <<serial_conn, caller, up, cb, ret>>
       \/ ChannelFails("write failed")

\* the final read that takes an empty response for a failed upload
UploadFinalReadNeedsAnswer ==
    /\ pc = "u_final"
    /\ UNCHANGED detectorVars
    /\ \/ LET data == Take(handles[serial_conn].inbuf, ReadCap)
          IN /\ handles' = [handles EXCEPT ![serial_conn].inbuf = Drop(@, ReadCap)]
             /\ log' = Append(log, Op("read", "final", data))
             /\ Finish(Returned("upload_firmware",
                                IF data = << >> THEN Failure("Upload failed: ", "no response")
                                ELSE Success(up.bytes_sent, Decode(data))))
             /\ UNCHANGED <<serial_conn, caller, up, cb>>
       \/ ChannelFails("read failed")

\* response = self.serial_conn.read(100); return the success dict
UploadFinalRead ==
    /\ pc = "u_final"
    /\ UNCHANGED detectorVars
    /\ \/ LET data == Take(handles[serial_conn].inbuf, ReadCap)
          IN /\ handles' = [handles EXCEPT ![serial_conn].inbuf = Drop(@, ReadCap)]
             /\ log' = Append(log, Op("read", "final", data))
             /\ Finish(Returned("upload_firmware", Success(up.bytes_sent, Decode(data))))
             /\ UNCHANGED <<serial_conn, caller, up, cb>>
       \/ ChannelFails("read failed")


\* ------------------------------------------- app.py upload button handler
\* uploader = FirmwareUploader(selected_port, baud_rate)
HandlerStart ==
    /\ pc = "idle"
    /\ UNCHANGED detectorVars
    /\ caller' = "handler"
    /\ serial_conn' = NoConn
    /\ pc' = "h_open"
    /\ \E path \in Paths, chunk_size \in HandlerChunkSizes :
          up' = [NoUp EXCEPT !.path = path, !.chunk_size = chunk_size, !.has_cb = TRUE]
    /\ log' = << >>
    /\ cb' = << >>
    /\ ret' = NoRet
    /\ \E objs \in Released : handles' = Disowned(objs)

\* if uploader.open_connection(): try: result = uploader.upload_firmware(...)
HandlerOpen ==
    /\ pc = "h_open"
    /\ UNCHANGED detectorVars
    /\ \/ /\ Len(handles) < MaxHandles
          /\ \E stale \in StaleInputs : OpenOk(stale)
          /\ pc' = "u_open"
          /\ UNCHANGED <<caller, ret>>
       \/ /\ \E e \in ChannelErrors("could not open port") :
                ret' = IF OpenConnectionExcept(e).kind = "raised"
                       THEN Raised("handler", e)
                       ELSE Returned("handler", Failure("Could not open port ", "selected_port"))
          /\ pc' = "idle"
          /\ caller' = "api"
          /\ UNCHANGED <<handles, serial_conn>>
    /\ UNCHANGED <<up, log, cb>>

\* the handler without its finally block
HandlerNoFinally ==
    /\ pc = "h_finally"
    /\ UNCHANGED detectorVars
    /\ ret' = IF ret.kind = "raised" THEN Raised("handler", ret.exc)
              ELSE Returned("handler", ret.val)
    /\ pc' = "idle"
    /\ caller' = "api"
    /\ UNCHANGED <<handles, serial_conn, up, log, cb>>

\* finally: uploader.close_connection()
HandlerFinally ==
    /\ pc = "h_finally"
    /\ UNCHANGED detectorVars
    /\ CloseEffect
    /\ ret' = IF ret.kind = "raised" THEN Raised("handler", ret.exc)
              ELSE Returned("handler", ret.val)
    /\ pc' = "idle"
    /\ caller' = "api"
    /\ UNCHANGED <<serial_conn, up, log, cb>>


\* ------------------------------------------------------------ detector
\* identify_by_vid_pid keeping the last registry entry with the port's IDs
identify_by_vid_pid_last(port) ==
    IF port.vid = NoId \/ port.pid = NoId THEN "None"
    ELSE LET hits == {i \in 1..Len(KNOWN_DEVICES) :
                         port.vid = KNOWN_DEVICES[i].vid /\ port.pid = KNOWN_DEVICES[i].pid}
         IN IF hits = {} THEN "None"
            ELSE KNOWN_DEVICES[CHOOSE i \in hits : \A j \in hits : i >= j].name

\* identify_by_vid_pid: the first registry entry with the port's IDs
identify_by_vid_pid(port) ==
    IF port.vid = NoId \/ port.pid = NoId THEN "None"
    ELSE LET hits == {i \in 1..Len(KNOWN_DEVICES) :
                         port.vid = KNOWN_DEVICES[i].vid /\ port.pid = KNOWN_DEVICES[i].pid}
         IN IF hits = {} THEN "None"
            ELSE KNOWN_DEVICES[CHOOSE i \in hits : \A j \in hits : i <= j].name

\* the candidate dict that drops the outcome of the verification
CandidateUnverified(port, device_type, verified) ==
    [port |-> port.device, device_type |-> device_type, description |-> port.description,
     vid |-> port.vid, pid |-> port.pid, verified |-> FALSE]

\* the candidate dict of the verification pass
Candidate(port, device_type, verified) ==
    [port |-> port.device, device_type |-> device_type, description |-> port.description,
     vid |-> port.vid, pid |-> port.pid, verified |-> verified]

\* the dict of the every-port fallback, marked unverified
UnknownDeviceUnverified(port) ==
    [port |-> port.device, device_type |-> "Unknown", description |-> port.description,
     verified |-> FALSE]

\* the dict of the every-port fallback
UnknownDevice(port) ==
    [port |-> port.device, device_type |-> "Unknown", description |-> port.description,
     verified |-> TRUE]

\* [c for c in candidates if c['verified']]
Verified(candidates) == SelectSeq(candidates, LAMBDA c : c.verified)

\* the selection without the preference for verified candidates
SelectionFirstCandidate(candidates, try_handshake) ==
    IF candidates # << >> THEN [go |-> "return", val |-> candidates[1]]
    ELSE IF try_handshake THEN [go |-> "fallback", val |-> None]
    ELSE [go |-> "return", val |-> None]

\* the selection that goes on to the every-port fallback whenever no candidate
\* was verified
SelectionFallsBack(candidates, try_handshake) ==
    IF Verified(candidates) # << >> THEN [go |-> "return", val |-> Verified(candidates)[1]]
    ELSE IF try_handshake THEN [go |-> "fallback", val |-> None]
    ELSE IF candidates # << >> THEN [go |-> "return", val |-> candidates[1]]
    ELSE [go |-> "return", val |-> None]

\* the selection after the verification pass: a value to return, or the
\* every-port fallback
Selection(candidates, try_handshake) ==
    IF Verified(candidates) # << >> THEN [go |-> "return", val |-> Verified(candidates)[1]]
    ELSE IF candidates # << >> THEN [go |-> "return", val |-> candidates[1]]
    ELSE IF try_handshake THEN [go |-> "fallback", val |-> None]
    ELSE [go |-> "return", val |-> None]

\* the except clause of verify_by_handshake
HandshakeCatches(e) == IsInstance(e, "SerialException") \/ IsInstance(e, "OSError")

\* verify_by_handshake hands v back to its caller: a direct caller, the
\* verification pass or the every-port fallback of detect_device
HandshakeReturn(v) ==
    CASE hs.from = "api" ->
            /\ ret' = Returned("verify_by_handshake", v)
            /\ pc' = "idle"
            /\ UNCHANGED det
      [] hs.from = "verify" ->
            /\ det' = [det EXCEPT
                  !.candidates = Append(@, Candidate(det.ports[det.i],
                                            identify_by_vid_pid(det.ports[det.i]), v)),
                  !.i = @ + 1]
            /\ pc' = "d_scan"
            /\ UNCHANGED ret
      [] hs.from = "fallback" ->
            IF v
            THEN /\ ret' = Returned("detect_device", UnknownDevice(det.ports[det.i]))
                 /\ pc' = "idle"
                 /\ UNCHANGED det
            ELSE /\ det' = [det EXCEPT !.i = @ + 1]
                 /\ pc' = "d_fallback"
                 /\ UNCHANGED ret

\* an exception e leaves the handshake without the with block closing the
\* channel
HandshakeRaiseLeavesOpen(e, opened) ==
    /\ UNCHANGED <<ser, log>>
    /\ IF HandshakeCatches(e)
       THEN HandshakeReturn(FALSE)
       ELSE /\ ret' = Raised(IF hs.from = "api" THEN "verify_by_handshake" ELSE "detect_device", e)
            /\ pc' = "idle"
            /\ UNCHANGED det
    /\ UNCHANGED hs

\* an exception e leaves the with block: the channel is closed on the way
\* out, then the except clause decides
HandshakeRaise(e, opened) ==
    /\ IF opened
       THEN /\ ser' = [state |-> "closed", inbuf |-> << >>]
            /\ log' = Append(log, Op("close", hs.port, << >>))
       ELSE UNCHANGED <<ser, log>>
    /\ IF HandshakeCatches(e)
       THEN HandshakeReturn(FALSE)
       ELSE /\ ret' = Raised(IF hs.from = "api" THEN "verify_by_handshake" ELSE "detect_device", e)
            /\ pc' = "idle"
            /\ UNCHANGED det
    /\ UNCHANGED hs

HandshakeFails(what, opened) == \E e \in ChannelErrors(what) : HandshakeRaise(e, opened)

\* a direct call of verify_by_handshake(port_name)
VerifyByHandshake ==
    /\ pc = "idle"
    /\ UNCHANGED uploaderVars
    /\ \E i \in 1..MaxPorts : hs' = [port |-> PortNames[i], from |-> "api", answer |-> << >>]
    /\ pc' = "hs_open"
    /\ ser' = NoSer
    /\ log' = << >>
    /\ ret' = NoRet
    /\ UNCHANGED det

\* with serial.Serial(port_name, baud_rate, timeout=HANDSHAKE_TIMEOUT) as ser
HandshakeOpen ==
    /\ pc = "hs_open"
    /\ UNCHANGED uploaderVars
    /\ \/ /\ \E stale \in StaleInputs : ser' = [state |-> "open", inbuf |-> stale]
          /\ log' = Append(log, Op("open", hs.port, << >>))
          /\ pc' = "hs_reset"
          /\ UNCHANGED <<hs, det, ret>>
       \/ HandshakeFails("could not open port", FALSE)

\* the output buffer reset in place of the input buffer: stale input stays
HandshakeResetKeepsInput ==
    /\ pc = "hs_reset"
    /\ UNCHANGED uploaderVars
    /\ log' = Append(log, Op("reset_input_buffer", hs.port, << >>))
    /\ pc' = "hs_write"
    /\ UNCHANGED <<ser, hs, det, ret>>

\* ser.reset_input_buffer()
HandshakeReset ==
    /\ pc = "hs_reset"
    /\ UNCHANGED uploaderVars
    /\ \/ /\ ser' = [ser EXCEPT !.inbuf = << >>]
          /\ log' = Append(log, Op("reset_input_buffer", hs.port, << >>))
          /\ pc' = "hs_write"
          /\ UNCHANGED <<hs, det, ret>>
       \/ HandshakeFails("reset failed", TRUE)

\* ser.write(HANDSHAKE_COMMAND); the device may answer
HandshakeWrite ==
    /\ pc = "hs_write"
    /\ UNCHANGED uploaderVars
    /\ \/ /\ \E resp \in HandshakeResponses :
                /\ ser' = [ser EXCEPT !.inbuf = @ \o resp]
                /\ hs' = [hs EXCEPT !.answer = resp]
          /\ log' = Append(log, Op("write", hs.port, HANDSHAKE_COMMAND))
          /\ pc' = "hs_read"
          /\ UNCHANGED <<det, ret>>
       \/ HandshakeFails("write failed", TRUE)

\* response = ser.read(len(HANDSHAKE_RESPONSE)); return HANDSHAKE_RESPONSE in response
HandshakeRead ==
    /\ pc = "hs_read"
    /\ UNCHANGED uploaderVars
    /\ \/ LET response == Take(ser.inbuf, Len(HANDSHAKE_RESPONSE))
          IN /\ ser' = [state |-> "closed", inbuf |-> << >>]
             /\ log' = Append(Append(log, Op("read", hs.port, response)),
                              Op("close", hs.port, << >>))
             /\ HandshakeReturn(Contains(response, HANDSHAKE_RESPONSE))
             /\ UNCHANGED hs
       \/ HandshakeFails("read failed", TRUE)

\* detect_device reading ports[0] ahead of the emptiness test
DetectDeviceFirstPort ==
    /\ pc = "idle"
    /\ UNCHANGED uploaderVars
    /\ log' = << >>
    /\ ser' = NoSer
    /\ hs' = NoHs
    /\ \E ports \in PortLists, try_handshake \in BOOLEAN :
          /\ det' = [ports |-> ports, i |-> 1, candidates |-> << >>,
                     try_handshake |-> try_handshake, probed |-> << >>]
          /\ IF ports = << >>
             THEN /\ ret' = Raised("detect_device", Exc("IndexError", "list index out of range"))
                  /\ pc' = "idle"
             ELSE /\ ret' = NoRet
                  /\ pc' = "d_scan"

\* detect_device(try_handshake): ports = cls.list_all_ports()
DetectDevice ==
    /\ pc = "idle"
    /\ UNCHANGED uploaderVars
    /\ log' = << >>
    /\ ser' = NoSer
    /\ hs' = NoHs
    /\ \E ports \in PortLists, try_handshake \in BOOLEAN :
          /\ det' = [ports |-> ports, i |-> 1, candidates |-> << >>,
                     try_handshake |-> try_handshake, probed |-> << >>]
          /\ IF ports = << >>
             THEN /\ ret' = Returned("detect_device", None)
                  /\ pc' = "idle"
             ELSE /\ ret' = NoRet
                  /\ pc' = "d_scan"

\* the verification pass that stops probing once a candidate has verified
DetectScanStopsAtVerified ==
    /\ pc = "d_scan"
    /\ UNCHANGED uploaderVars
    /\ IF det.i <= Len(det.ports)
       THEN LET port == det.ports[det.i]
                device_type == identify_by_vid_pid(port)
            IN IF device_type = "None"
               THEN /\ det' = [det EXCEPT !.i = @ + 1]
                    /\ UNCHANGED <<pc, ser, hs, log, ret>>
               ELSE IF det.try_handshake /\ Verified(det.candidates) = << >>
               THEN /\ hs' = [port |-> port.device, from |-> "verify", answer |-> << >>]
                    /\ det' = [det EXCEPT !.probed = Append(@, port.device)]
                    /\ pc' = "hs_open"
                    /\ UNCHANGED <<ser, log, ret>>
               ELSE /\ det' = [det EXCEPT
                          !.candidates = Append(@, Candidate(port, device_type,
                                                             ~det.try_handshake)),
                          !.i = @ + 1]
                    /\ UNCHANGED <<pc, ser, hs, log, ret>>
       ELSE LET sel == Selection(det.candidates, det.try_handshake)
            IN IF sel.go = "return"
               THEN /\ ret' = Returned("detect_device", sel.val)
                    /\ pc' = "idle"
                    /\ UNCHANGED <<det, ser, hs, log>>
               ELSE /\ det' = [det EXCEPT !.i = 1]
                    /\ pc' = "d_fallback"
                    /\ UNCHANGED <<ser, hs, log, ret>>

\* one round of "for port in ports", and the selection after the last round
DetectScan ==
    /\ pc = "d_scan"
    /\ UNCHANGED uploaderVars
    /\ IF det.i <= Len(det.ports)
       THEN LET port == det.ports[det.i]
                device_type == identify_by_vid_pid(port)
            IN IF device_type = "None"
               THEN /\ det' = [det EXCEPT !.i = @ + 1]
                    /\ UNCHANGED <<pc, ser, hs, log, ret>>
               ELSE IF det.try_handshake
               THEN /\ hs' = [port |-> port.device, from |-> "verify", answer |-> << >>]
                    /\ det' = [det EXCEPT !.probed = Append(@, port.device)]
                    /\ pc' = "hs_open"
                    /\ UNCHANGED <<ser, log, ret>>
               ELSE /\ det' = [det EXCEPT
                          !.candidates = Append(@, Candidate(port, device_type, TRUE)),
                          !.i = @ + 1]
                    /\ UNCHANGED <<pc, ser, hs, log, ret>>
       ELSE LET sel == Selection(det.candidates, det.try_handshake)
            IN IF sel.go = "return"
               THEN /\ ret' = Returned("detect_device", sel.val)
                    /\ pc' = "idle"
                    /\ UNCHANGED <<det, ser, hs, log>>
               ELSE /\ det' = [det EXCEPT !.i = 1]
                    /\ pc' = "d_fallback"
                    /\ UNCHANGED <<ser, hs, log, ret>>

\* one round of the every-port fallback
DetectFallback ==
    /\ pc = "d_fallback"
    /\ UNCHANGED uploaderVars
    /\ IF det.i <= Len(det.ports)
       THEN /\ hs' = [port |-> det.ports[det.i].device, from |-> "fallback", answer |-> << >>]
            /\ det' = [det EXCEPT !.probed = Append(@, det.ports[det.i].device)]
            /\ pc' = "hs_open"
            /\ UNCHANGED <<ser, log, ret>>
       ELSE /\ ret' = Returned("detect_device", None)
            /\ pc' = "idle"
            /\ UNCHANGED <<det, ser, hs, log>>

\* ============================================================== claims
\* upload_firmware has handed a result dict back to its caller
UploadReturned == ret.op = "upload_firmware" /\ ret.kind = "value"
UploadSucceeded == UploadReturned /\ ret.val.success

\* the data of the payload writes of the log, in order
PayloadWrites == SelectSeq(log, LAMBDA o : o.op = "write" /\ o.site = "chunk")

RECURSIVE Concat(_)
Concat(ops) == IF ops = << >> THEN << >> ELSE Head(ops).data \o Concat(Tail(ops))

CeilDiv(n, c) == (n + c - 1) \div c

\* C1: a result with success = true has bytes_sent equal to the byte length
\* of the firmware file, for every file length and every chunk_size.
C1_BytesSentIsFileLength ==
    UploadSucceeded => ret.val.bytes_sent = Len(up.content)

\* C2: a successful upload of N bytes with chunk size C >= 1 performs exactly
\* ceil(N/C) payload writes, each of C bytes except a possibly shorter last
\* one, whose concatenation is the file; the progress callback, when there is
\* one and the file is not empty, is last invoked with (100, N, N).
C2_ChunkedWrites ==
    (UploadSucceeded /\ up.chunk_size >= 1) =>
        LET w == PayloadWrites
            N == Len(up.content)
            C == up.chunk_size
        IN /\ Len(w) = CeilDiv(N, C)
           /\ \A i \in 1..Len(w) :
                 Len(w[i].data) = IF i < Len(w) THEN C ELSE N - C * (Len(w) - 1)
           /\ Concat(w) = up.content
           /\ (up.has_cb /\ N > 0) => cb # << >>
           /\ cb # << >> => cb[Len(cb)] = <<100, N, N>>

\* C2 witness: a three-byte file went out in chunks of two bytes, with a
\* progress callback.
C2_Witness ==
    /\ UploadSucceeded
    /\ up.chunk_size = 2
    /\ Len(up.content) = 3
    /\ Len(PayloadWrites) = 2
    /\ up.has_cb

\* detect_device has returned
DetectReturned == ret.op = "detect_device" /\ ret.kind = "value"
VerifiedIndexes == {i \in 1..Len(det.candidates) : det.candidates[i].verified}

\* C3: when at least one identified candidate is verified, detect_device
\* returns the first verified candidate in enumeration order, also when
\* unverified candidates precede it.
C3_FirstVerifiedWins ==
    (DetectReturned /\ VerifiedIndexes # {}) =>
        LET first == CHOOSE i \in VerifiedIndexes : \A j \in VerifiedIndexes : i <= j
        IN /\ ret.val = det.candidates[first]
           /\ ret.val.verified

\* C3 witness: detect_device returned the second candidate, verified, after
\* a first candidate whose handshake failed.
C3_Witness ==
    /\ DetectReturned
    /\ Len(det.candidates) >= 2
    /\ ~det.candidates[1].verified
    /\ det.candidates[2].verified
    /\ ret.val = det.candidates[2]

\* C4: in a successful upload the log is: file opened, input buffer reset,
\* output buffer reset, start marker, the payload chunks in file order,
\* completion marker, one read of at most 100 bytes; nothing else.
C4_UploadOrder ==
    UploadSucceeded =>
        LET n == Len(log)
            body == SubSeq(log, 5, n - 2)
        IN /\ n >= 6
           /\ log[1].op = "file_open"
           /\ log[2].op = "reset_input_buffer"
           /\ log[3].op = "reset_output_buffer"
           /\ log[4] = Op("write", "start", UPLOAD_START)
           /\ \A i \in 1..Len(body) : body[i].op = "write" /\ body[i].site = "chunk"
           /\ Concat(body) = Take(up.content, ret.val.bytes_sent)
           /\ log[n - 1] = Op("write", "complete", UPLOAD_COMPLETE)
           /\ log[n].op = "read" /\ Len(log[n].data) <= ReadCap

\* C4 witness: a successful upload with two payload chunks and a device
\* answer longer than the read takes.
C4_Witness ==
    /\ UploadSucceeded
    /\ Len(PayloadWrites) = 2
    /\ Len(log[Len(log)].data) = ReadCap

\* a direct call of verify_by_handshake is over
HandshakeOver == ret.op = "verify_by_handshake"
OpsOf(name) == {i \in 1..Len(log) : log[i].op = name}

\* C5: the handshake resets the input buffer before it writes PING\n, reads
\* at most 4 bytes, returns true exactly when the bytes read contain PONG,
\* which takes the device to answer this PING with PONG; open failures, I/O
\* failures, no answer and other answers give false, and nothing is raised,
\* neither by the handshake nor by a detect_device that runs it.
C5_Handshake ==
    /\ ret.op \in {"verify_by_handshake", "detect_device"} => ret.kind = "value"
    /\ HandshakeOver =>
          /\ \A w \in OpsOf("write") :
                /\ log[w].data = HANDSHAKE_COMMAND
                /\ \E r \in OpsOf("reset_input_buffer") : r < w
          /\ \A r \in OpsOf("read") :
                /\ Len(log[r].data) <= Len(HANDSHAKE_RESPONSE)
                /\ \E w \in OpsOf("write") : w < r
          /\ ret.val <=> \E r \in OpsOf("read") : Contains(log[r].data, HANDSHAKE_RESPONSE)
          /\ ret.val => Take(hs.answer, Len(HANDSHAKE_RESPONSE)) = HANDSHAKE_RESPONSE

\* C5 witness: a handshake wrote PING\n, read, and returned false because
\* the device did not answer.
C5_Witness ==
    /\ HandshakeOver
    /\ ret.val = FALSE
    /\ OpsOf("read") # {}
    /\ hs.answer = << >>

\* the message of the returned dict names what went wrong: the exception's
\* own description, or the path for a firmware file that is not there
CarriesCause ==
    \/ ret.val.message[2] = up.cause.desc
    \/ /\ up.failed_at = "u_open"
       /\ up.cause.cls = "FileNotFoundError"
       /\ ret.val.message[2] = up.path

\* C6: upload_firmware never raises; a channel failure at any step, a
\* filesystem error or a failure raised by the progress callback gives a
\* result with success = false whose message carries the cause's description.
C6_AlwaysFailureResult ==
    (ret.op = "upload_firmware" /\ up.cause # NoExc) =>
        /\ ret.kind = "value"
        /\ ~ret.val.success
        /\ CarriesCause

\* C7: while the uploader's connection is not open, a call of upload_firmware
\* never enters the body (no file access, no channel reset, write or read):
\* it returns success = false at once with an empty log.
C7_NotOpenFailsAtOnce ==
    [][(pc = "idle" /\ ~IsOpen(serial_conn)) =>
          /\ pc' # "u_open"
          /\ ret'.op = "upload_firmware" =>
                /\ pc' = "idle"
                /\ ret'.kind = "value"
                /\ ~ret'.val.success
                /\ ret'.val.message[1] = "Serial connection not open"
                /\ log' = << >>]_vars

\* C7 witness: upload_firmware was refused on an uploader whose connection
\* had been opened and closed again.
C7_Witness ==
    /\ UploadReturned
    /\ ret.val.message[1] = "Serial connection not open"
    /\ serial_conn # NoConn
    /\ handles[serial_conn].closes = 1
    /\ log = << >>

\* C8: with the connection open, a firmware path that does not exist gives
\* success = false with a message containing the path; the file open attempt
\* is all that happened: no buffer reset, no write, no read.
C8_MissingFile ==
    (ret.op = "upload_firmware" /\ up.failed_at = "u_open"
        /\ up.cause.cls = "FileNotFoundError") =>
        /\ ret.kind = "value"
        /\ ~ret.val.success
        /\ ret.val.message = <<"Firmware file not found: ", up.path>>
        /\ log = <<Op("file_open", up.path, << >>)>>
        /\ IsOpen(serial_conn)

\* C8 witness: an upload of app.hex failed because the file is not there.
C8_Witness ==
    /\ UploadReturned
    /\ up.failed_at = "u_open"
    /\ up.cause.cls = "FileNotFoundError"
    /\ up.path = "app.hex"

\* C9: close_connection on an uploader without an open connection (never
\* opened, or closed before) returns normally and changes nothing; no
\* channel ever receives a second close.
C9_CloseIdempotent ==
    [][/\ (pc = "idle" /\ ret'.op = "close_connection" /\ ~IsOpen(serial_conn)) =>
             /\ ret'.kind = "value"
             /\ handles' = handles
             /\ serial_conn' = serial_conn
       /\ \A h \in 1..Len(handles') : handles'[h].closes <= 1]_vars

\* C9 witness: close_connection was called on a connection that an earlier
\* close_connection had already closed.
C9_Witness ==
    /\ ret.op = "close_connection"
    /\ ~ret.closed
    /\ serial_conn # NoConn
    /\ handles[serial_conn].closes = 1

\* C10 as stated: when upload_firmware hands control back, the channel the
\* uploader opened is closed.
C10_ReleasedOnReturn ==
    ret.op = "upload_firmware" => ~IsOpen(serial_conn)

\* C10 amended: upload_firmware leaves the channel open when it returns (the
\* handler's finally block is entered with it open); the upload button
\* handler of app.py has closed the channel it opened by the time it is
\* over, whether upload_firmware succeeded, failed or raised.
C10_HandlerReleases ==
    /\ pc = "h_finally" => IsOpen(serial_conn)
    /\ ret.op = "handler" => ~IsOpen(serial_conn)

\* C10 witness: the handler is over after its upload_firmware raised, and
\* the channel it had opened has been closed once.
C10_Witness ==
    /\ ret.op = "handler"
    /\ ret.kind = "raised"
    /\ serial_conn # NoConn
    /\ handles[serial_conn].closes = 1

\* the handshake channels open after the first k operations of the log
OpenAfter(k) ==
    Cardinality({i \in 1..k : log[i].op = "open"})
        - Cardinality({i \in 1..k : log[i].op = "close"})

DetectorAtWork == pc \in {"hs_open", "hs_reset", "hs_write", "hs_read", "d_scan", "d_fallback"}
DetectorOver == ret.op \in {"verify_by_handshake", "detect_device"}

\* C11: every channel a handshake opens is closed before the handshake hands
\* its answer back (PONG read, no PONG read, or a channel failure after the
\* open); so at every point of a detect run at most one channel is open, an
\* open channel belongs to the handshake in progress, and none is open between
\* two handshakes or once verify_by_handshake or detect_device has returned.
C11_HandshakeCloses ==
    (DetectorAtWork \/ DetectorOver) =>
        /\ \A k \in 0..Len(log) : OpenAfter(k) \in {0, 1}
        /\ \A k \in 1..Len(log) :
              log[k].op = "close" =>
                  /\ OpenAfter(k - 1) = 1
                  /\ \E j \in 1..(k - 1) :
                        /\ log[j].op = "open" /\ log[j].site = log[k].site
                        /\ \A m \in (j + 1)..(k - 1) : log[m].site = log[k].site
        /\ (OpenAfter(Len(log)) = 1) = (ser.state = "open")
        /\ ser.state = "open" => pc \in {"hs_reset", "hs_write", "hs_read"}
        /\ (pc \in {"idle", "d_scan", "d_fallback", "hs_open"}) => OpenAfter(Len(log)) = 0

\* detect_device has returned after two handshakes, one of which failed on the
\* channel after it had opened it
C11_Witness ==
    /\ DetectReturned
    /\ Cardinality(OpsOf("open")) = 2
    /\ Cardinality(OpsOf("close")) = 2
    /\ Cardinality(OpsOf("read")) < 2

\* the positions of the ports the registry identifies, and the device names of
\* a sequence of ports
IdentifiedIndexes == {i \in 1..Len(det.ports) : identify_by_vid_pid(det.ports[i]) # "None"}
DeviceNames(ports) == [i \in 1..Len(ports) |-> ports[i].device]
FirstOf(S) == CHOOSE i \in S : \A j \in S : i <= j

\* C12: with the handshake enabled, at least one port identified and the
\* handshake of every identified port failed, detect_device returns the first
\* identified port in enumeration order with verified = FALSE; exactly the
\* identified ports were probed, so the every-port fallback was not attempted
\* and no unidentified port is returned.
C12_UnverifiedFirstCandidate ==
    (DetectReturned /\ det.try_handshake /\ IdentifiedIndexes # {} /\ VerifiedIndexes = {}) =>
        /\ ret.val # None
        /\ ret.val.port = det.ports[FirstOf(IdentifiedIndexes)].device
        /\ ret.val.device_type = identify_by_vid_pid(det.ports[FirstOf(IdentifiedIndexes)])
        /\ ret.val.verified = FALSE
        /\ det.probed = DeviceNames(SelectSeq(det.ports,
                                LAMBDA p : identify_by_vid_pid(p) # "None"))
        /\ Cardinality(OpsOf("read")) <= Cardinality(IdentifiedIndexes)

\* detect_device has returned the unverified second port: the first port is
\* not in the registry and was never probed
C12_Witness ==
    /\ DetectReturned /\ det.try_handshake
    /\ Len(det.ports) = 2
    /\ IdentifiedIndexes = {2}
    /\ VerifiedIndexes = {}
    /\ ret.val # None
    /\ ret.val.port = det.ports[2].device
    /\ det.probed = <<det.ports[2].device>>

\* the reads of the handshakes so far, in order
Reads == SelectSeq(log, LAMBDA o : o.op = "read")
Answered(o) == Contains(o.data, HANDSHAKE_RESPONSE)

\* C13: with the handshake enabled and no port identified by the registry,
\* detect_device probes the ports in enumeration order and returns the first
\* port whose handshake read contains PONG, with device type "Unknown" and
\* verified = TRUE, having probed no later port; it returns None when every
\* port was probed and none answered.
C13_FallbackFirstResponder ==
    (DetectReturned /\ det.try_handshake /\ det.ports # << >> /\ IdentifiedIndexes = {}) =>
        LET k == Len(det.probed)
        IN /\ k \in 1..Len(det.ports)
           /\ det.probed = DeviceNames(Take(det.ports, k))
           /\ \A j \in 1..(Len(Reads) - 1) : ~Answered(Reads[j])
           /\ IF ret.val = None
              THEN /\ k = Len(det.ports)
                   /\ \A j \in 1..Len(Reads) : ~Answered(Reads[j])
              ELSE /\ ret.val = [port |-> det.ports[k].device, device_type |-> "Unknown",
                                 description |-> det.ports[k].description, verified |-> TRUE]
                   /\ Reads # << >>
                   /\ Reads[Len(Reads)].site = det.ports[k].device
                   /\ Answered(Reads[Len(Reads)])

\* the first of two unidentified ports answered PONG and was returned; the
\* second was not probed
C13_Witness ==
    /\ DetectReturned /\ det.try_handshake
    /\ Len(det.ports) = 2 /\ IdentifiedIndexes = {}
    /\ ret.val # None
    /\ ret.val.port = det.ports[1].device
    /\ ret.val.device_type = "Unknown"
    /\ det.probed = <<det.ports[1].device>>

\* C14: when the host enumerates no port, detect_device returns None, with the
\* handshake enabled and with it disabled, and it has called no handshake,
\* opened no channel and issued no channel operation.
C14_NoPorts ==
    (ret.op = "detect_device" /\ det.ports = << >>) =>
        /\ ret.kind = "value"
        /\ ret.val = None
        /\ det.probed = << >>
        /\ det.candidates = << >>
        /\ log = << >>
        /\ ser.state = "none"
        /\ pc = "idle"

\* detect_device(try_handshake = TRUE) has returned on a host without ports
C14_Witness ==
    /\ DetectReturned
    /\ det.ports = << >>
    /\ det.try_handshake
    /\ ret.val = None
    /\ log = << >>

\* the registry labels whose entry is exactly the pair (vid, pid)
RegistryNames(vid, pid) ==
    {KNOWN_DEVICES[i].name : i \in {j \in 1..Len(KNOWN_DEVICES) :
                                      KNOWN_DEVICES[j].vid = vid /\ KNOWN_DEVICES[j].pid = pid}}
Registered(p) == p.vid # NoId /\ p.pid # NoId /\ RegistryNames(p.vid, p.pid) # {}

\* the ports the verification pass has already identified or skipped
Scanned ==
    IF DetectReturned THEN det.ports
    ELSE IF pc = "d_scan" THEN Take(det.ports, det.i - 1)
    ELSE << >>

\* C15: identify_by_vid_pid gives no match to a port whose vendor or product
\* ID is absent or whose pair is not in the registry, and to a port with a
\* registered pair a label whose registry entry is exactly that pair; for the
\* pair (0x1A86, 0x7523), registered under two labels, every call gives the
\* first-registered label, ESP32_ALT. Seen on the candidates detect_device
\* collects: they are the scanned ports with a registered pair, in order,
\* each under such a label.
C15_Identify ==
    (DetectReturned \/ pc = "d_scan") =>
        LET matched == SelectSeq(Scanned, Registered)
        IN /\ Len(det.candidates) = Len(matched)
           /\ \A i \in 1..Len(det.candidates) :
                 LET c == det.candidates[i]
                 IN /\ c.port = matched[i].device
                    /\ c.vid = matched[i].vid /\ c.pid = matched[i].pid
                    /\ c.device_type \in RegistryNames(c.vid, c.pid)
                    /\ (c.vid = 6790 /\ c.pid = 29987) => c.device_type = "ESP32_ALT"
                    /\ \A j \in 1..Len(det.candidates) :
                          (det.candidates[j].vid = c.vid /\ det.candidates[j].pid = c.pid)
                              => det.candidates[j].device_type = c.device_type

\* detect_device has scanned a port with a registered vendor ID and another
\* entry's product ID, which it skipped, and a CH340 port, labelled ESP32_ALT
C15_Witness ==
    /\ DetectReturned
    /\ Len(det.ports) = 2
    /\ det.ports[1].vid = 9025 /\ det.ports[1].pid = 29987
    /\ det.ports[2].vid = 6790 /\ det.ports[2].pid = 29987
    /\ Len(det.candidates) = 1
    /\ det.candidates[1].port = det.ports[2].device
    /\ det.candidates[1].device_type = "ESP32_ALT"

\* C16: open_connection returns FALSE and does not raise on any channel-level
\* failure of the open, and returns TRUE only when the channel was opened;
\* after it returns FALSE on an uploader that had no open connection, the
\* uploader still has no open connection.
C16_OpenNeverRaises ==
    [][(pc = "idle" /\ pc' = "idle" /\ ret'.op = "open_connection") =>
          /\ ret'.kind = "value"
          /\ ret'.val \in BOOLEAN
          /\ ret'.val => (serial_conn' # NoConn /\ handles'[serial_conn'].is_open
                           /\ Len(handles') = Len(handles) + 1)
          /\ (~ret'.val /\ ~IsOpen(serial_conn)) =>
                ~(serial_conn' # NoConn /\ handles'[serial_conn'].is_open)]_vars

RegisteredIndexes == {i \in 1..Len(det.ports) : Registered(det.ports[i])}

\* C17: with the handshake disabled detect_device calls no handshake, opens no
\* channel and writes nothing to any port; it returns the first port in
\* enumeration order whose ID pair is in the registry, with verified = TRUE,
\* and None when ports exist but none has a registered pair.
C17_NoHandshake ==
    /\ (pc = "d_fallback" \/ (pc \in {"hs_open", "hs_reset", "hs_write", "hs_read"}
                               /\ hs.from # "api")) => det.try_handshake
    /\ (~det.try_handshake /\ (pc = "d_scan" \/ ret.op = "detect_device")) =>
          /\ log = << >>
          /\ det.probed = << >>
          /\ ser.state = "none"
          /\ (ret.op = "detect_device" /\ det.ports # << >>) =>
                /\ ret.kind = "value"
                /\ IF RegisteredIndexes = {}
                   THEN ret.val = None
                   ELSE /\ ret.val # None
                        /\ ret.val.port = det.ports[FirstOf(RegisteredIndexes)].device
                        /\ ret.val.device_type \in
                              RegistryNames(det.ports[FirstOf(RegisteredIndexes)].vid,
                                            det.ports[FirstOf(RegisteredIndexes)].pid)
                        /\ ret.val.verified = TRUE

\* detect_device(try_handshake = FALSE) has returned the second port, the
\* first not being in the registry, without any channel operation
C17_Witness ==
    /\ DetectReturned /\ ~det.try_handshake
    /\ Len(det.ports) = 2
    /\ RegisteredIndexes = {2}
    /\ ret.val # None
    /\ ret.val.port = det.ports[2].device
    /\ ret.val.verified
    /\ log = << >>

\* the final read of the upload has been made
FinalReadDone ==
    /\ ret.op = "upload_firmware"
    /\ log # << >>
    /\ log[Len(log)].op = "read" /\ log[Len(log)].site = "final"

\* what an upload without failure sends, from the file and the chunk size alone
SentFor(content, chunk_size) == IF chunk_size = 0 THEN 0 ELSE Len(content)

\* C18: the success of an upload does not depend on the device's response:
\* once the final read has been made, whatever bytes it returned (none
\* included), the result is success = TRUE with the bytes_sent and the message
\* that the file and the chunk size alone determine; only the response field
\* follows the bytes read.
C18_ResponseIgnored ==
    FinalReadDone =>
        /\ ret.kind = "value"
        /\ DOMAIN ret.val = {"success", "message", "bytes_sent", "response"}
        /\ ret.val.success = TRUE
        /\ ret.val.bytes_sent = SentFor(up.content, up.chunk_size)
        /\ ret.val.message = <<"Successfully uploaded bytes",
                               SentFor(up.content, up.chunk_size)>>
        /\ ret.val.response = Decode(log[Len(log)].data)

\* an upload of a non-empty file has succeeded on a final read of no bytes
C18_Witness ==
    /\ FinalReadDone
    /\ UploadSucceeded
    /\ log[Len(log)].data = << >>
    /\ up.content # << >>
    /\ ret.val.bytes_sent = Len(up.content)
    /\ ret.val.response = << >>

\* an upload is in its body or has returned
UploadSeen ==
    \/ pc \in {"u_reset_in", "u_reset_out", "u_start", "u_read", "u_write", "u_progress",
               "u_complete", "u_final"}
    \/ ret.op = "upload_firmware"

\* the bytes written by the first i payload writes
SentAfter(i) == Len(Concat(SubSeq(PayloadWrites, 1, i)))

\* C19: the progress callback is invoked exactly once per chunk, after that
\* chunk's write, with (percent, bytes_sent, total) where bytes_sent counts the
\* bytes of the chunks written so far, total is the file length and percent is
\* floor(bytes_sent * 100 / total); over the invocations bytes_sent is
\* strictly increasing and percent is non-decreasing within 0..100.
C19_ProgressPerChunk ==
    (UploadSeen /\ up.has_cb) =>
        /\ Len(cb) = IF pc = "u_progress" THEN Len(PayloadWrites) - 1 ELSE Len(PayloadWrites)
        /\ \A i \in 1..Len(cb) :
              /\ cb[i][2] = SentAfter(i)
              /\ cb[i][3] = Len(up.content)
              /\ cb[i][1] = (cb[i][2] * 100) \div cb[i][3]
              /\ cb[i][1] \in 0..100
              /\ i > 1 => (cb[i - 1][2] < cb[i][2] /\ cb[i - 1][1] <= cb[i][1])

WritesOfLog == SelectSeq(log, LAMBDA o : o.op = "write")

\* C20: when a channel write of an upload fails, at the start marker or at a
\* chunk, nothing is written after it (no later chunk, no completion marker)
\* and no response is read; the result has success = FALSE and no bytes_sent
\* field; the writes made before the failure stay as they were, the start
\* marker and the chunks in file order up to the failing one.
C20_WriteFailureStops ==
    (ret.op = "upload_firmware" /\ up.failed_at \in {"u_start", "u_write"}) =>
        /\ ret.kind = "value"
        /\ ret.val.success = FALSE
        /\ DOMAIN ret.val = {"success", "message"}
        /\ \A i \in 1..Len(log) :
              /\ log[i].op # "read"
              /\ ~(log[i].op = "write" /\ log[i].site = "complete")
        /\ IF up.failed_at = "u_start"
           THEN WritesOfLog = << >>
           ELSE /\ WritesOfLog # << >>
                /\ WritesOfLog[1] = Op("write", "start", UPLOAD_START)
                /\ Len(PayloadWrites) = Len(WritesOfLog) - 1
                /\ Concat(PayloadWrites) = Take(up.content, up.bytes_sent)
                /\ up.chunk # << >>
                /\ up.pos = up.bytes_sent + Len(up.chunk)
                /\ up.chunk = SubSeq(up.content, up.bytes_sent + 1, up.pos)

\* the write of a chunk has failed after an earlier chunk had been written,
\* and upload_firmware has returned its failure
C20_Witness ==
    /\ ret.op = "upload_firmware" /\ ret.kind = "value"
    /\ up.failed_at = "u_write"
    /\ up.bytes_sent >= 1
    /\ Len(PayloadWrites) >= 1
    /\ ret.val.success = FALSE

\* the every-port fallback of a detect run is under way
InFallback ==
    \/ pc = "d_fallback"
    \/ pc \in {"hs_open", "hs_reset", "hs_write", "hs_read"} /\ hs.from = "fallback"

\* the verification pass of a detect run is under way
InVerification ==
    \/ pc = "d_scan"
    \/ pc \in {"hs_open", "hs_reset", "hs_write", "hs_read"} /\ hs.from = "verify"

Identified(p) == identify_by_vid_pid(p) # "None"
OpensOfLog == SelectSeq(log, LAMBDA o : o.op = "open")

\* C21: within one detect run each port is probed by the handshake at most
\* once; the verification pass probes every identified port once, in
\* enumeration order, also after one of them has verified; the every-port
\* fallback runs only when the verification pass probed no port.
C21_ProbedAtMostOnce ==
    /\ \A i, j \in 1..Len(det.probed) : i # j => det.probed[i] # det.probed[j]
    /\ (InVerification \/ InFallback \/ ret.op = "detect_device") =>
          \A i, j \in 1..Len(OpensOfLog) : i # j => OpensOfLog[i].site # OpensOfLog[j].site
    /\ (InVerification /\ det.try_handshake) =>
          det.probed = DeviceNames(SelectSeq(
                          Take(det.ports, IF pc = "d_scan" THEN det.i - 1 ELSE det.i),
                          Identified))
    /\ InFallback =>
          /\ det.try_handshake
          /\ IdentifiedIndexes = {}
          /\ det.candidates = << >>
          /\ det.probed = DeviceNames(Take(det.ports,
                                           IF pc = "d_fallback" THEN det.i - 1 ELSE det.i))
    /\ (DetectReturned /\ det.try_handshake /\ IdentifiedIndexes # {}) =>
          /\ det.probed = DeviceNames(SelectSeq(det.ports, Identified))
          /\ Len(det.candidates) = Len(det.probed)

\* the first of two identified ports verified and the second was probed all
\* the same, each once
C21_Witness ==
    /\ DetectReturned /\ det.try_handshake
    /\ Len(det.ports) = 2
    /\ IdentifiedIndexes = {1, 2}
    /\ det.candidates[1].verified
    /\ det.probed = <<det.ports[1].device, det.ports[2].device>>
    /\ ret.val.port = det.ports[1].device

\* the open channels that the current uploader object opened
OwnOpen == {h \in 1..Len(handles) : handles[h].owned /\ handles[h].is_open}

\* C22: after any sequence of open_connection, upload_firmware and
\* close_connection calls on one uploader, the uploader holds at most one open
\* channel, and once close_connection has returned no channel opened by that
\* uploader is open (also after two successful open_connection calls followed
\* by one close_connection).
C22_AtMostOneChannel ==
    (pc = "idle" /\ caller = "api") =>
        /\ Cardinality(OwnOpen) <= 1
        /\ ret.op = "close_connection" => OwnOpen = {}

NextUploader ==
    \/ NewUploader
    \/ OpenConnection
    \/ CloseConnection
    \/ UploadFirmware
    \/ UploadOpenFile
    \/ UploadResetInput
    \/ UploadResetOutput
    \/ UploadStart
    \/ UploadReadChunk
    \/ UploadWriteChunk
    \/ UploadProgress
    \/ UploadComplete
    \/ UploadFinalRead
    \/ HandlerStart
    \/ HandlerOpen
    \/ HandlerFinally

NextDetector ==
    \/ VerifyByHandshake
    \/ HandshakeOpen
    \/ HandshakeReset
    \/ HandshakeWrite
    \/ HandshakeRead
    \/ DetectDevice
    \/ DetectScan
    \/ DetectFallback

Next == NextUploader \/ NextDetector

Spec == Init /\ [][Next]_vars

\* the uploader and the upload button handler alone
SpecUploader == Init /\ [][NextUploader]_vars

\* the detector alone
SpecDetector == Init /\ [][NextDetector]_vars
====
